---- MODULE Spec2Model ----
(***************************************************************************)
(* The Cloudflare Workers audio merge handler of src/src/index.ts: the     *)
(* request handler `fetch`, the MP3 frame scanner (findMP3FrameSync,       *)
(* getMP3FrameSize), the frame concatenation with its "crossfade" trim     *)
(* (concatenateMP3Files), normalizeVolume and the base64 conversions.      *)
(* Byte buffers are sequences over 0..255; the source's 0-based indices    *)
(* are kept and translated by At and Slice.                                *)
(***************************************************************************)
EXTENDS Integers, Sequences, FiniteSets, TLC

\* Largest number of segments in the payloads built from Choices.
MaxSegs == 3

----------------------------------------------------------------------------
(* Arithmetic of the JavaScript operators the source uses.                 *)

Min2(a, b) == IF a <= b THEN a ELSE b

SetMin(S) == CHOOSE x \in S : \A y \in S : x <= y

RECURSIVE BitOr(_, _)
\* a | b on non-negative integers below 2^31
BitOr(a, b) ==
  IF a = 0 THEN b
  ELSE IF b = 0 THEN a
  ELSE (IF a % 2 = 1 \/ b % 2 = 1 THEN 1 ELSE 0) + 2 * BitOr(a \div 2, b \div 2)

RECURSIVE BitAnd(_, _)
\* a & b on non-negative integers below 2^31
BitAnd(a, b) ==
  IF a = 0 \/ b = 0 THEN 0
  ELSE (IF a % 2 = 1 /\ b % 2 = 1 THEN 1 ELSE 0) + 2 * BitAnd(a \div 2, b \div 2)

\* a << n and a >> n (no operand of the source reaches 2^31)
ShiftLeft(a, n) == a * (2 ^ n)
ShiftRight(a, n) == a \div (2 ^ n)

\* data[i] of a Uint8Array, i in range
At(data, i) == data[i + 1]

\* data.slice(from, to), 0 <= from, to clamped to the length
Slice(data, from, to) == SubSeq(data, from + 1, Min2(to, Len(data)))

----------------------------------------------------------------------------
(* Strings of a request.  A base64 text is a sequence of symbols: 0..63    *)
(* the alphabet, B64Pad '=', B64Space an ASCII whitespace, B64Bad any      *)
(* other character.  A string field is Undefined or [prefix, text], prefix *)
(* telling whether the text follows a "data:<mime>;base64," header.        *)

B64Pad == 64
B64Space == 65
B64Bad == 66

Undefined == [defined |-> FALSE, prefix |-> FALSE, text |-> <<>>]
Str(prefix, text) == [defined |-> TRUE, prefix |-> prefix, text |-> text]

\* !input of the source: undefined or the empty string
Falsy(input) == ~input.defined \/ (~input.prefix /\ input.text = <<>>)

\* a || b of the source
OrElse(a, b) == IF Falsy(a) THEN b ELSE a

\* normalizeBase64: '' for a falsy input, the text after the data-URI
\* header when there is one, else the input itself
normalizeBase64(input) ==
  IF Falsy(input) THEN <<>> ELSE input.text

\* atob: the forgiving-base64 decode of the platform; threw tells that it
\* raised its exception
atob(b64) ==
  LET s1 == SelectSeq(b64, LAMBDA c : c # B64Space)
      n1 == Len(s1)
      cut == IF n1 % 4 = 0 /\ n1 > 0 /\ s1[n1] = B64Pad
             THEN (IF s1[n1 - 1] = B64Pad THEN 2 ELSE 1)
             ELSE 0
      s == SubSeq(s1, 1, n1 - cut)
      n == Len(s)
      nbytes == (n * 6) \div 8
      sx(j) == IF j <= n THEN s[j] ELSE 0
  IN IF n % 4 = 1 \/ (\E j \in 1..n : s[j] > 63)
     THEN [threw |-> TRUE, bytes |-> <<>>]
     ELSE [threw |-> FALSE,
           bytes |-> [k \in 1..nbytes |->
             LET g == (k - 1) \div 3
                 r == (k - 1) % 3
             IN CASE r = 0 -> sx(4 * g + 1) * 4 + (sx(4 * g + 2) \div 16)
                  [] r = 1 -> (sx(4 * g + 2) % 16) * 16 + (sx(4 * g + 3) \div 4)
                  [] r = 2 -> (sx(4 * g + 3) % 4) * 64 + sx(4 * g + 4)]]

\* btoa of a binary string whose char codes are the given bytes
btoa(bytes) ==
  LET n == Len(bytes)
      groups == (n + 2) \div 3
      bx(j) == IF j <= n THEN bytes[j] ELSE 0
  IN [k \in 1..(4 * groups) |->
       LET g == (k - 1) \div 4
           r == (k - 1) % 4
       IN CASE r = 0 -> bx(3 * g + 1) \div 4
            [] r = 1 -> (bx(3 * g + 1) % 4) * 16 + (bx(3 * g + 2) \div 16)
            [] r = 2 -> IF 3 * g + 2 > n THEN B64Pad
                        ELSE (bx(3 * g + 2) % 16) * 4 + (bx(3 * g + 3) \div 64)
            [] r = 3 -> IF 3 * g + 3 > n THEN B64Pad
                        ELSE bx(3 * g + 3) % 64]

\* base64ToUint8Array: atob, then one byte per char code
base64ToUint8Array(base64) == atob(base64)

\* uint8ArrayToBase64: one char per byte, then btoa
uint8ArrayToBase64(bytes) == btoa(bytes)

----------------------------------------------------------------------------
(* The frame scanner.                                                      *)

\* (data[i + 1] << 8) | data[i + 2]
FrameHeader(data, i) == BitOr(ShiftLeft(At(data, i + 1), 8), At(data, i + 2))

\* the test of findMP3FrameSync at offset i
SyncAt(data, i) ==
  /\ At(data, i) = 255
  /\ BitAnd(At(data, i + 1), 224) = 224
  /\ LET frameHeader == FrameHeader(data, i)
         version == BitAnd(ShiftRight(frameHeader, 19), 3)
         layer == BitAnd(ShiftRight(frameHeader, 17), 3)
         bitrateIndex == BitAnd(ShiftRight(frameHeader, 12), 15)
         sampleRateIndex == BitAnd(ShiftRight(frameHeader, 10), 3)
     IN version # 1 /\ layer # 1 /\ bitrateIndex # 0 /\ sampleRateIndex # 3

\* findMP3FrameSync: the first i in startIndex .. data.length - 4 passing the
\* test, else -1
findMP3FrameSync(data, startIndex) ==
  LET hits == {i \in startIndex..(Len(data) - 4) : SyncAt(data, i)}
  IN IF hits = {} THEN -1 ELSE SetMin(hits)

bitrates == <<0, 32, 40, 48, 56, 64, 80, 96, 112, 128, 160, 192, 224, 256, 288, 320>>
sampleRates == <<44100, 48000, 32000>>

\* getMP3FrameSize
getMP3FrameSize(data, frameStart) ==
  IF frameStart + 4 >= Len(data) THEN 0
  ELSE
    LET frameHeader == FrameHeader(data, frameStart)
        bitrateIndex == BitAnd(ShiftRight(frameHeader, 12), 15)
        sampleRateIndex == BitAnd(ShiftRight(frameHeader, 10), 3)
        padding == BitAnd(ShiftRight(frameHeader, 9), 1)
        bitrate == IF At(bitrates, bitrateIndex) # 0
                   THEN At(bitrates, bitrateIndex) ELSE 128
        sampleRate == IF sampleRateIndex < Len(sampleRates)
                      THEN At(sampleRates, sampleRateIndex) ELSE 44100
        frameSize == ((bitrate * 1000 * 144) \div (sampleRate * 4)) + padding
    IN Min2(frameSize, Len(data) - frameStart)

----------------------------------------------------------------------------
(* concatenateMP3Files.  An entry of concatenatedFrames is the byte slice  *)
(* the source pushes; seg, off and raw record where the slice was taken    *)
(* from: the position of the buffer in audioBuffers, the offset in it, and *)
(* whether it is a whole buffer pushed for want of a sync word.            *)

\* Math.floor(crossfadeDuration * 44100 / 1152) with crossfadeDuration = 0.1
crossfadeFrames == (44100 \div 10) \div 1152

Frame(seg, off, raw, bytes) == [seg |-> seg, off |-> off, raw |-> raw, bytes |-> bytes]

\* the first three bytes are 'ID3'
IsID3(buffer) ==
  LET id3Header == Slice(buffer, 0, 10)
  IN At(id3Header, 0) = 73 /\ At(id3Header, 1) = 68 /\ At(id3Header, 2) = 51

\* (id3Header[6] << 21) | (id3Header[7] << 14) | (id3Header[8] << 7) | id3Header[9]
Id3Size(buffer) ==
  LET id3Header == Slice(buffer, 0, 10)
  IN BitOr(BitOr(BitOr(ShiftLeft(At(id3Header, 6), 21),
                       ShiftLeft(At(id3Header, 7), 14)),
                 ShiftLeft(At(id3Header, 8), 7)),
           At(id3Header, 9))

\* frameStart when the extraction loop is entered: the first sync found
\* from byte 0, replaced by the end of an ID3 tag when the sync lies beyond
\* offset 10 and the buffer starts with 'ID3'; -1 when there is no sync
FirstFrameStart(buffer) ==
  LET frameStart == findMP3FrameSync(buffer, 0)
  IN IF frameStart > 10 /\ IsID3(buffer) THEN 10 + Id3Size(buffer) ELSE frameStart

RECURSIVE ExtractFrames(_, _, _)
\* the while loop that fills segmentFrames
ExtractFrames(buffer, seg, frameStart) ==
  IF frameStart = -1 \/ ~(frameStart < Len(buffer)) THEN <<>>
  ELSE LET frameSize == getMP3FrameSize(buffer, frameStart)
       IN IF frameSize <= 0 THEN <<>>
          ELSE <<Frame(seg, frameStart, FALSE,
                       Slice(buffer, frameStart, frameStart + frameSize))>>
               \o ExtractFrames(buffer, seg,
                                findMP3FrameSync(buffer, frameStart + frameSize))

\* frames.splice(-n): n = 0 is splice(0), which empties the array
SpliceTail(frames, n) ==
  IF n = 0 THEN <<>> ELSE SubSeq(frames, 1, Len(frames) - n)

\* frames.splice(0, n)
SpliceHead(frames, n) == SubSeq(frames, n + 1, Len(frames))

\* segmentFrames of one pass of the for loop (empty for a buffer without sync)
SegmentFrames(buffer, i) ==
  IF findMP3FrameSync(buffer, 0) = -1 THEN <<>>
  ELSE ExtractFrames(buffer, i, FirstFrameStart(buffer))

\* the crossfade test of pass i
Crossfades(segmentFrames, i) == i > 0 /\ Len(segmentFrames) > crossfadeFrames

\* concatenatedFrames after pass i of the for loop
ProcessSegment(frames, buffer, i) ==
  IF findMP3FrameSync(buffer, 0) = -1
  THEN Append(frames, Frame(i, 0, TRUE, buffer))
  ELSE LET segmentFrames == SegmentFrames(buffer, i)
       IN IF Crossfades(segmentFrames, i)
          THEN SpliceTail(frames, Min2(crossfadeFrames, Len(frames)))
               \o SpliceHead(segmentFrames, crossfadeFrames)
          ELSE frames \o segmentFrames

RECURSIVE CombineFrames(_)
\* the result buffer: the entries copied one after the other
CombineFrames(frames) ==
  IF frames = <<>> THEN <<>>
  ELSE CombineFrames(SubSeq(frames, 1, Len(frames) - 1)) \o frames[Len(frames)].bytes

\* normalizeVolume: Math.min(255, Math.floor(b * 0.8)) for every byte
normalizeVolume(audioBuffer) ==
  [j \in 1..Len(audioBuffer) |-> Min2(255, (audioBuffer[j] * 4) \div 5)]

----------------------------------------------------------------------------
(* The segments of a request.  startMs is present or not (hasStart); idx   *)
(* records the position the segment had in the array as it was received.   *)

Segment(dataUri, dataBase64, hasStart, startMs) ==
  [dataUri |-> dataUri, dataBase64 |-> dataBase64,
   hasStart |-> hasStart, startMs |-> startMs, idx |-> 0]

\* a.startMs ?? 0
StartKey(seg) == IF seg.hasStart THEN seg.startMs ELSE 0

\* the comparator of the sort: (a.startMs ?? 0) - (b.startMs ?? 0)
Compare(a, b) == StartKey(a) - StartKey(b)

RECURSIVE InsertSegmentTiesInverted(_, _)
\* InsertSegment with x placed before the elements that compare equal to it
InsertSegmentTiesInverted(sorted, x) ==
  IF sorted = <<>> THEN <<x>>
  ELSE LET last == sorted[Len(sorted)]
       IN IF Compare(last, x) >= 0
          THEN Append(InsertSegmentTiesInverted(SubSeq(sorted, 1, Len(sorted) - 1), x),
                      last)
          ELSE Append(sorted, x)

RECURSIVE InsertSegment(_, _)
\* x placed behind every element that does not compare greater than it
InsertSegment(sorted, x) ==
  IF sorted = <<>> THEN <<x>>
  ELSE LET last == sorted[Len(sorted)]
       IN IF Compare(last, x) > 0
          THEN Append(InsertSegment(SubSeq(sorted, 1, Len(sorted) - 1), x), last)
          ELSE Append(sorted, x)

\* SortSegments with the sort left out
SortSegmentsLeftOut(segs) == segs

RECURSIVE SortSegments(_)
\* Array.prototype.sort with the comparator: a stable sort
SortSegments(segs) ==
  IF segs = <<>> THEN <<>>
  ELSE InsertSegment(SortSegments(SubSeq(segs, 1, Len(segs) - 1)), segs[Len(segs)])

----------------------------------------------------------------------------
(* The whole handler as a function of the payload, from the check of the   *)
(* audioSegments array to the response.                                    *)

ErrorResponse(status, error, at) ==
  [status |-> status, ok |-> FALSE, error |-> error, at |-> at,
   mergedBase64 |-> <<>>, segmentCount |-> 0]

OkResponse(base64, count) ==
  [status |-> 200, ok |-> TRUE, error |-> "", at |-> 0,
   mergedBase64 |-> base64, segmentCount |-> count]

\* the base64 text of segment seg: normalizeBase64(seg.dataUri || seg.dataBase64)
SegmentBase64(seg) == normalizeBase64(OrElse(seg.dataUri, seg.dataBase64))

\* one pass of the conversion loop for the segment at position i:
\* "missing" (the 400 response), "threw" (atob raised) or "pushed"
ConvertOne(seg) ==
  LET b64 == SegmentBase64(seg)
  IN IF b64 = <<>> THEN [kind |-> "missing", buffer |-> <<>>]
     ELSE LET decoded == base64ToUint8Array(b64)
          IN IF decoded.threw THEN [kind |-> "threw", buffer |-> <<>>]
             ELSE [kind |-> "pushed", buffer |-> decoded.bytes]

RECURSIVE FramesUpTo(_, _)
\* concatenatedFrames after the passes 0 .. n-1 of the for loop
FramesUpTo(audioBuffers, n) ==
  IF n = 0 THEN <<>>
  ELSE ProcessSegment(FramesUpTo(audioBuffers, n - 1), audioBuffers[n], n - 1)

\* concatenateMP3Files on one buffer or more
concatenateMP3Files(audioBuffers) ==
  IF Len(audioBuffers) = 1 THEN audioBuffers[1]
  ELSE CombineFrames(FramesUpTo(audioBuffers, Len(audioBuffers)))

RECURSIVE ConvertFrom(_, _, _)
\* the conversion loop from position i on, then the merge and the response
ConvertFrom(segs, i, audioBuffers) ==
  IF i = Len(segs)
  THEN OkResponse(uint8ArrayToBase64(normalizeVolume(concatenateMP3Files(audioBuffers))),
                  Len(segs))
  ELSE LET c == ConvertOne(segs[i + 1])
       IN CASE c.kind = "missing" -> ErrorResponse(400, "Segment missing base64", i)
            [] c.kind = "threw" -> ErrorResponse(500, "Failed to merge audio", 0)
            [] OTHER -> ConvertFrom(segs, i + 1, Append(audioBuffers, c.buffer))

\* the response of fetch to a POST whose JSON body holds audioSegments
FetchResponse(isArr, segs) ==
  IF ~isArr \/ Len(segs) = 0
  THEN ErrorResponse(400, "audioSegments array required", 0)
  ELSE ConvertFrom(SortSegments(segs), 0, <<>>)

----------------------------------------------------------------------------
(* The payloads.                                                           *)

\* n bytes that hold no 0xFF
Filler(n, seed) == [j \in 1..n |-> (seed * 31 + j * 7) % 251]

\* a frame header FF E4 10 xx and its payload: 216 bytes, the length
\* getMP3FrameSize computes for it
FullFrame(seed) == <<255, 228, 16, seed>> \o Filler(212, seed)

RECURSIVE FullFrames(_, _)
FullFrames(n, seed) ==
  IF n = 0 THEN <<>> ELSE FullFrames(n - 1, seed) \o FullFrame(seed + n)

\* n frames: n - 1 whole ones and a last one cut short by the end of the buffer
FramesBuffer(n, seed) == FullFrames(n - 1, seed) \o <<255, 228, 16, seed, 44>>

\* no sync word
RawBytes == <<1, 2, 255, 3, 73, 68, 51, 9>>
\* two stray bytes, then one frame cut short by the end of the buffer
OneFrame == <<5, 6, 255, 228, 16, 0, 7, 8, 9>>
\* four frames
FourFrames == FramesBuffer(4, 0)
\* an ID3v2 tag of 3 bytes, then one frame
Id3Tagged == <<73, 68, 51, 3, 0, 0, 0, 0, 0, 3>> \o <<9, 9, 9>> \o <<255, 228, 16, 0, 1, 2>>
\* an ID3v2 tag with size bytes 0 0 2 1, then one frame
Id3Scenario ==
  <<73, 68, 51, 3, 0, 0, 0, 0, 2, 1>> \o Filler(257, 5) \o <<255, 228, 16, 0, 1, 2>>
\* an ID3v2 header whose last size byte has its top bit set, one tag byte, one frame
Id3HighBit == <<73, 68, 51, 3, 0, 0, 0, 0, 0, 129>> \o <<9>> \o <<255, 228, 16, 0, 1, 2, 3, 4, 5>>
\* an MPEG-1 Layer III frame of 128 kbps at 44100 Hz (417 bytes), then the
\* start of the next one
RealMp3 == <<255, 251, 144, 0>> \o Filler(413, 7) \o <<255, 251, 144, 0, 1, 2>>

Plain(bytes) == Str(FALSE, btoa(bytes))
DataUri(bytes) == Str(TRUE, btoa(bytes))

SegRaw == Segment(Undefined, Plain(RawBytes), FALSE, 0)
SegOne == Segment(Undefined, Plain(OneFrame), TRUE, 0)
SegFour == Segment(Undefined, Plain(FourFrames), TRUE, 1000)
SegId3 == Segment(DataUri(Id3Tagged), Undefined, TRUE, 500)
SegMissing == Segment(Undefined, Undefined, TRUE, 2000)
SegEmptyUri == Segment(Str(TRUE, <<>>), Undefined, TRUE, 0)
SegSpace == Segment(Undefined, Str(FALSE, <<B64Space>>), TRUE, 3000)
SegBad == Segment(Undefined, Str(FALSE, <<B64Bad, 1, 2, 3>>), TRUE, 0)
SegId3Scenario == Segment(Undefined, Plain(Id3Scenario), TRUE, 0)
SegId3HighBit == Segment(Undefined, Plain(Id3HighBit), TRUE, 0)
SegRealMp3 == Segment(Undefined, Plain(RealMp3), TRUE, 0)
SegTenA == Segment(Undefined, Plain(FramesBuffer(10, 20)), TRUE, 0)
SegTenB == Segment(Undefined, Plain(FramesBuffer(10, 40)), TRUE, 1000)

Choices == {SegRaw, SegOne, SegFour, SegId3, SegMissing}

ChoicePayloads == UNION {[1..n -> Choices] : n \in 0..MaxSegs}

ExtraPayloads ==
  { <<SegSpace>>, <<SegFour, SegSpace>>, <<SegBad>>, <<SegOne, SegBad>>,
    <<SegEmptyUri>>, <<SegId3Scenario>>, <<SegId3Scenario, SegOne>>,
    <<SegId3HighBit>>, <<SegId3HighBit, SegOne>>, <<SegOne, SegId3HighBit>>,
    <<SegRealMp3>>, <<SegRealMp3, SegOne>>, <<SegId3, SegRealMp3, SegOne>>,
    <<SegTenB, SegTenA>> }

\* idx: the position in the array as received
WithIdx(segs) == [j \in 1..Len(segs) |-> [segs[j] EXCEPT !.idx = j - 1]]

----------------------------------------------------------------------------
(* The handler, step by step.                                              *)

VARIABLES
  pc,                 \* where the handler is
  isArray,            \* Array.isArray(payload?.audioSegments)
  audioSegments,      \* payload.audioSegments, sorted in place
  audioBuffers,       \* the decoded buffers
  i,                  \* the index of the for loop of concatenateMP3Files
  concatenatedFrames, \* concatenatedFrames of concatenateMP3Files
  scans,              \* per pass: frameStart at loop entry and the frames found
  mergedBuffer,       \* the value concatenateMP3Files returns
  response            \* the response, once pc = "done"

vars == <<pc, isArray, audioSegments, audioBuffers, i, concatenatedFrames, scans,
          mergedBuffer, response>>

NoResponse == [status |-> 0, ok |-> FALSE, error |-> "", at |-> 0,
               mergedBase64 |-> <<>>, segmentCount |-> 0]

\* One pass of the for loop of concatenateMP3Files taken step by step (the
\* steps are further down): the loops of findMP3FrameSync and of the frame
\* extraction, one iteration at a time.
VARIABLES
  scanPc,             \* where the pass is
  scanBuffer,         \* buffer
  scanIndex,          \* i of findMP3FrameSync (startIndex when it is entered)
  scanFrameStart,     \* frameStart
  scanFrames,         \* segmentFrames: offset and length of each frame
  scanRaw             \* the buffer was pushed whole for want of a sync word

scanVars == <<scanPc, scanBuffer, scanIndex, scanFrameStart, scanFrames, scanRaw>>

\* no pass is looked at
ScanIdle ==
  /\ scanPc = "idle"
  /\ scanBuffer = <<>>
  /\ scanIndex = 0
  /\ scanFrameStart = -1
  /\ scanFrames = <<>>
  /\ scanRaw = FALSE

\* Two requests in flight in the route that merges on the shared ffmpeg.wasm
\* instance (route.ts 1-104); the steps are further down.
VARIABLES
  ffmpeg,             \* the module-level instance: "null" or "instance"
  ffmpegReady,        \* the module-level flag
  wasmFs,             \* the file system of the instance: name -> file
  wasmPc,             \* per request: the await it stands at
  wasmSegments,       \* per request: audioSegments, sorted
  wasmI,              \* per request: i of the write loop
  fileNames,          \* per request: fileNames
  wasmResponse,       \* per request: the response
  wasmEvents          \* per request: what it read of, or took from, the other

wasmVars == <<ffmpeg, ffmpegReady, wasmFs, wasmPc, wasmSegments, wasmI, fileNames,
              wasmResponse, wasmEvents>>

WasmIdle ==
  /\ ffmpeg = "null"
  /\ ffmpegReady = FALSE
  /\ wasmFs = <<>>
  /\ wasmPc = <<>>
  /\ wasmSegments = <<>>
  /\ wasmI = <<>>
  /\ fileNames = <<>>
  /\ wasmResponse = <<>>
  /\ wasmEvents = <<>>

\* Two requests in flight in the route that merges with fluent-ffmpeg over
\* files in tmpdir() (route.ts 197-319); the steps are further down.
VARIABLES
  now,                \* Date.now()
  tmpFs,              \* tmpdir(): name -> file
  tmpPc,              \* per request: the await it stands at
  tmpSegments,        \* per request: audioSegments, sorted
  tmpI,               \* per request: i of the write loop, then of the unlink loop
  tempFiles,          \* per request: tempFiles
  outputFile,         \* per request: outputFile
  tmpOutcome,         \* per request: "none", "merged" (base64 is set) or "threw"
  tmpResponse,        \* per request: the response
  tmpFailed           \* per request: the names whose unlink threw

tmpVars == <<now, tmpFs, tmpPc, tmpSegments, tmpI, tempFiles, outputFile,
             tmpOutcome, tmpResponse, tmpFailed>>

TmpIdle ==
  /\ now = 0
  /\ tmpFs = <<>>
  /\ tmpPc = <<>>
  /\ tmpSegments = <<>>
  /\ tmpI = <<>>
  /\ tempFiles = <<>>
  /\ outputFile = <<>>
  /\ tmpOutcome = <<>>
  /\ tmpResponse = <<>>
  /\ tmpFailed = <<>>

\* the variables of the other parts of the module
restVars == <<scanVars, wasmVars, tmpVars>>

RestIdle == ScanIdle /\ WasmIdle /\ TmpIdle

Init ==
  /\ pc = "validate"
  /\ \/ /\ isArray = TRUE
        /\ \E segs \in ChoicePayloads \cup ExtraPayloads : audioSegments = WithIdx(segs)
     \/ /\ isArray = FALSE
        /\ audioSegments = <<>>
  /\ audioBuffers = <<>>
  /\ i = 0
  /\ concatenatedFrames = <<>>
  /\ scans = <<>>
  /\ mergedBuffer = <<>>
  /\ response = NoResponse
  /\ RestIdle

\* index.ts 216-225
ValidatePayload ==
  /\ pc = "validate"
  /\ UNCHANGED restVars
  /\ IF ~isArray \/ Len(audioSegments) = 0
     THEN /\ response' = ErrorResponse(400, "audioSegments array required", 0)
          /\ pc' = "done"
     ELSE /\ pc' = "sort"
          /\ UNCHANGED response
  /\ UNCHANGED <<isArray, audioSegments, audioBuffers, i, concatenatedFrames, scans,
                 mergedBuffer>>

\* index.ts 231
SortPayload ==
  /\ pc = "sort"
  /\ UNCHANGED restVars
  /\ audioSegments' = SortSegments(audioSegments)
  /\ pc' = "convert"
  /\ UNCHANGED <<isArray, audioBuffers, i, concatenatedFrames, scans, mergedBuffer,
                 response>>

\* index.ts 236-252 (one pass) and 286-298 when atob throws
ConvertSegment ==
  /\ pc = "convert"
  /\ UNCHANGED restVars
  /\ LET at == Len(audioBuffers)
         c == ConvertOne(audioSegments[at + 1])
     IN CASE c.kind = "missing" ->
               /\ response' = ErrorResponse(400, "Segment missing base64", at)
               /\ pc' = "done"
               /\ UNCHANGED audioBuffers
          [] c.kind = "threw" ->
               /\ response' = ErrorResponse(500, "Failed to merge audio", 0)
               /\ pc' = "done"
               /\ UNCHANGED audioBuffers
          [] OTHER ->
               /\ audioBuffers' = Append(audioBuffers, c.buffer)
               /\ pc' = IF at + 1 = Len(audioSegments) THEN "concat" ELSE "convert"
               /\ UNCHANGED response
  /\ UNCHANGED <<isArray, audioSegments, i, concatenatedFrames, scans, mergedBuffer>>

\* index.ts 85-98
Concatenate ==
  /\ pc = "concat"
  /\ UNCHANGED restVars
  /\ IF Len(audioBuffers) = 0
     THEN /\ response' = ErrorResponse(500, "Failed to merge audio", 0)
          /\ pc' = "done"
          /\ UNCHANGED mergedBuffer
     ELSE IF Len(audioBuffers) = 1
     THEN /\ mergedBuffer' = audioBuffers[1]
          /\ pc' = "normalize"
          /\ UNCHANGED response
     ELSE /\ pc' = "frames"
          /\ UNCHANGED <<mergedBuffer, response>>
  /\ UNCHANGED <<isArray, audioSegments, audioBuffers, i, concatenatedFrames, scans>>

FrameSpan(f) == [off |-> f.off, len |-> Len(f.bytes)]

\* index.ts 100-150 (one pass of the for loop)
ScanSegment ==
  /\ pc = "frames"
  /\ UNCHANGED restVars
  /\ LET buffer == audioBuffers[i + 1]
         found == SegmentFrames(buffer, i)
     IN /\ concatenatedFrames' = ProcessSegment(concatenatedFrames, buffer, i)
        /\ scans' = Append(scans,
             [frameStart |-> FirstFrameStart(buffer),
              frames |-> [j \in 1..Len(found) |-> FrameSpan(found[j])]])
  /\ i' = i + 1
  /\ pc' = IF i + 1 < Len(audioBuffers) THEN "frames" ELSE "combine"
  /\ UNCHANGED <<isArray, audioSegments, audioBuffers, mergedBuffer, response>>

\* index.ts 152-163
Combine ==
  /\ pc = "combine"
  /\ UNCHANGED restVars
  /\ mergedBuffer' = CombineFrames(concatenatedFrames)
  /\ pc' = "normalize"
  /\ UNCHANGED <<isArray, audioSegments, audioBuffers, i, concatenatedFrames, scans,
                 response>>

\* index.ts 257-284
Respond ==
  /\ pc = "normalize"
  /\ UNCHANGED restVars
  /\ response' = OkResponse(uint8ArrayToBase64(normalizeVolume(mergedBuffer)),
                            Len(audioSegments))
  /\ pc' = "done"
  /\ UNCHANGED <<isArray, audioSegments, audioBuffers, i, concatenatedFrames, scans,
                 mergedBuffer>>

Next ==
  \/ ValidatePayload
  \/ SortPayload
  \/ ConvertSegment
  \/ Concatenate
  \/ ScanSegment
  \/ Combine
  \/ Respond

Spec == Init /\ [][Next]_vars

----------------------------------------------------------------------------
\* the handler's steps and the handler as a function agree
StepsAgree ==
  pc = "done" =>
    response = FetchResponse(isArray,
      [j \in 1..Len(audioSegments) |->
         CHOOSE s \in {audioSegments[k] : k \in 1..Len(audioSegments)} : s.idx = j - 1])

----------------------------------------------------------------------------
(* What the claims speak of.                                               *)

\* the handler has answered with a merged file
Succeeded == pc = "done" /\ response.ok

\* the bytes a client decodes from the response
OutputBytes == atob(response.mergedBase64).bytes

\* the bytes a client encoded into the segment at sorted position s (0-based)
InputBytes(s) == atob(SegmentBase64(audioSegments[s + 1])).bytes

\* every pass of the for loop of concatenateMP3Files has run
AllScanned == Len(audioBuffers) >= 2 /\ Len(scans) = Len(audioBuffers)

\* the entries of concatenatedFrames taken from segment s
EntriesOf(s) == SelectSeq(concatenatedFrames, LAMBDA f : f.seg = s)

\* the number of frames the scanner found in segment s
FrameCount(s) == Len(scans[s + 1].frames)

\* frame j (1-based) of segment s is in concatenatedFrames
FramePresent(s, j) ==
  \E n \in 1..Len(concatenatedFrames) :
    /\ concatenatedFrames[n].seg = s
    /\ ~concatenatedFrames[n].raw
    /\ concatenatedFrames[n].off = scans[s + 1].frames[j].off

RECURSIVE RangesOf(_)
\* the byte ranges the entries of a frame list name, read from the inputs
RangesOf(frames) ==
  IF frames = <<>> THEN <<>>
  ELSE LET f == frames[Len(frames)]
       IN RangesOf(SubSeq(frames, 1, Len(frames) - 1))
          \o Slice(InputBytes(f.seg), f.off, f.off + Len(f.bytes))

\* C1: the merged audio of a successful request is made of byte ranges of
\* the input buffers, each byte equal to the input byte it was taken from:
\* the whole buffer for a single segment, the ranges of concatenatedFrames
\* for a merge of several.
C1_BytesCopiedUnchanged ==
  Succeeded =>
    OutputBytes = IF Len(audioSegments) = 1 THEN InputBytes(0)
                  ELSE RangesOf(concatenatedFrames)

\* C2: once every segment of a merge has been scanned, a segment without a
\* valid frame sync has its whole buffer in concatenatedFrames, exactly
\* once, as it was received (stated on the frame list, before
\* normalizeVolume runs).
C2_SyncFreeSegmentKept ==
  AllScanned =>
    \A s \in 0..(Len(audioBuffers) - 1) :
      findMP3FrameSync(InputBytes(s), 0) = -1 =>
        /\ Len(EntriesOf(s)) = 1
        /\ EntriesOf(s)[1].bytes = InputBytes(s)

\* C3: once every segment of a merge has been scanned, a segment of k or
\* fewer frames has all its frames in concatenatedFrames, and a segment of
\* one frame or more has at least one there (k = crossfadeFrames).
C3_SegmentsSurviveTrim ==
  AllScanned =>
    \A s \in 0..(Len(audioBuffers) - 1) :
      /\ FrameCount(s) <= crossfadeFrames =>
           \A j \in 1..FrameCount(s) : FramePresent(s, j)
      /\ FrameCount(s) >= 1 =>
           \E j \in 1..FrameCount(s) : FramePresent(s, j)

\* the boundary between s and s + 1 is trimmed by the rule of the claims:
\* both segments have more than k frames
TrimmedBoundary(s) ==
  /\ 0 <= s /\ s + 1 < Len(audioBuffers)
  /\ FrameCount(s) > crossfadeFrames
  /\ FrameCount(s + 1) > crossfadeFrames

\* the frames of segment s that stay when each trimmed boundary takes k
\* frames on either side and nothing else is removed
ExpectedKept(s) ==
  {j \in 1..FrameCount(s) :
     /\ TrimmedBoundary(s - 1) => j > crossfadeFrames
     /\ TrimmedBoundary(s) => j <= FrameCount(s) - crossfadeFrames}

\* C4: for adjacent segments s and s + 1 of more than k frames each, the
\* frames of s in concatenatedFrames are its frames but exactly the last k
\* (and the k its own earlier boundary takes), those of s + 1 its frames but
\* exactly the first k (and the k its later boundary takes).
C4_ExactlyKTrimmedEachSide ==
  AllScanned =>
    \A s \in 0..(Len(audioBuffers) - 2) :
      TrimmedBoundary(s) =>
        /\ \A j \in 1..FrameCount(s) : FramePresent(s, j) <=> j \in ExpectedKept(s)
        /\ \A j \in 1..FrameCount(s + 1) :
             FramePresent(s + 1, j) <=> j \in ExpectedKept(s + 1)

\* the array with its elements in the order p: position j holds what
\* position p[j] holds now
Reordered(p) == [j \in 1..Len(audioSegments) |-> audioSegments[p[j]]]

\* p keeps segments of equal start time in the order they were received in
KeepsTieOrder(p) ==
  \A j1, j2 \in 1..Len(audioSegments) :
    (j1 < j2 /\ StartKey(audioSegments[p[j1]]) = StartKey(audioSegments[p[j2]]))
      => audioSegments[p[j1]].idx < audioSegments[p[j2]].idx

SameOutput(r1, r2) ==
  /\ r1.status = r2.status
  /\ r1.ok = r2.ok
  /\ r1.mergedBase64 = r2.mergedBase64

\* C5 as claimed: the handler answers every reordering of the received
\* array with the same output.
C5_AnyReorderingSameOutput ==
  (pc = "done" /\ isArray) =>
    \A p \in Permutations(1..Len(audioSegments)) :
      SameOutput(FetchResponse(TRUE, Reordered(p)), response)

\* C5 as amended: the handler answers with the same output every reordering
\* that keeps segments of equal start time in their received order.
C5_TieKeepingReorderingSameOutput ==
  (pc = "done" /\ isArray) =>
    \A p \in Permutations(1..Len(audioSegments)) :
      KeepsTieOrder(p) => SameOutput(FetchResponse(TRUE, Reordered(p)), response)

\* a merged answer to three segments that were received out of order, two
\* of them with the same start time
C5_Witness ==
  /\ Succeeded
  /\ Len(audioSegments) = 3
  /\ OutputBytes # <<>>
  /\ \E j \in 1..3 : audioSegments[j].idx # j - 1
  /\ \E j1, j2 \in 1..3 :
       /\ j1 # j2
       /\ StartKey(audioSegments[j1]) = StartKey(audioSegments[j2])
       /\ InputBytes(j1 - 1) # InputBytes(j2 - 1)

\* the sort has run
Sorted == pc \notin {"validate", "sort"}

\* C6: after the sort the segments are in ascending order of start time (a
\* missing one counting as 0), equal start times in received order; the
\* buffers are those of the segments in that order; the entries of
\* concatenatedFrames are in ascending order of segment and, within a
\* segment, in the order the scanner found them; the merged buffer is these
\* entries' byte ranges one after the other.
C6_OrderOfContribution ==
  /\ Sorted =>
       \A a, b \in 1..Len(audioSegments) :
         a < b =>
           \/ StartKey(audioSegments[a]) < StartKey(audioSegments[b])
           \/ /\ StartKey(audioSegments[a]) = StartKey(audioSegments[b])
              /\ audioSegments[a].idx < audioSegments[b].idx
  /\ \A j \in 1..Len(audioBuffers) : audioBuffers[j] = InputBytes(j - 1)
  /\ \A n1, n2 \in 1..Len(concatenatedFrames) :
       n1 < n2 =>
         LET f1 == concatenatedFrames[n1]
             f2 == concatenatedFrames[n2]
         IN \/ f1.seg < f2.seg
            \/ /\ f1.seg = f2.seg
               /\ \E j1, j2 \in 1..FrameCount(f1.seg) :
                    /\ j1 < j2
                    /\ scans[f1.seg + 1].frames[j1].off = f1.off
                    /\ scans[f1.seg + 1].frames[j2].off = f2.off
  /\ (pc \in {"normalize", "done"} /\ AllScanned) =>
       mergedBuffer = RangesOf(concatenatedFrames)

\* a merged answer to three segments received out of order, two of them
\* with the same start time and both in the output, one segment with two
\* frames in the output
C6_Witness ==
  /\ Succeeded
  /\ AllScanned
  /\ Len(audioSegments) = 3
  /\ \E j \in 1..3 : audioSegments[j].idx # j - 1
  /\ \E s \in 0..2 : Len(EntriesOf(s)) >= 2
  /\ \E s1, s2 \in 0..2 :
       /\ s1 < s2
       /\ StartKey(audioSegments[s1 + 1]) = StartKey(audioSegments[s2 + 1])
       /\ Len(EntriesOf(s1)) >= 1
       /\ Len(EntriesOf(s2)) >= 1

\* the size of an ID3v2 tag: the low 7 bits of each of bytes 6..9, most
\* significant first
SynchSafeSize(buffer) ==
  (At(buffer, 6) % 128) * 2097152 + (At(buffer, 7) % 128) * 16384
    + (At(buffer, 8) % 128) * 128 + (At(buffer, 9) % 128)

\* the first three bytes are 'ID3' and the 10-byte header is there
StartsWithID3(buffer) ==
  /\ Len(buffer) >= 10
  /\ At(buffer, 0) = 73 /\ At(buffer, 1) = 68 /\ At(buffer, 2) = 51

\* where the claims have the audio of a buffer begin: the first frame sync
\* at or after the end of a leading ID3v2 tag
ClaimedAudioStart(buffer) ==
  findMP3FrameSync(buffer, IF StartsWithID3(buffer) THEN 10 + SynchSafeSize(buffer) ELSE 0)

\* C7: for one segment that holds a frame, the merged buffer is the
\* segment's bytes from its first frame sync on, a leading ID3v2 tag left
\* out (stated on the value concatenateMP3Files returns, before
\* normalizeVolume runs).
C7_SingleSegmentFromFirstSync ==
  (pc \in {"normalize", "done"} /\ Len(audioSegments) = 1 /\ Len(audioBuffers) = 1
     /\ ClaimedAudioStart(InputBytes(0)) # -1) =>
    mergedBuffer = Slice(InputBytes(0), ClaimedAudioStart(InputBytes(0)),
                         Len(InputBytes(0)))

\* the fields of the 4-byte header at off, as the claims read them: version
\* id bits 20-19, layer id bits 18-17, bitrate index bits 15-12, sample-rate
\* index bits 11-10, padding bit 9
HeaderVersion(buffer, off) == (At(buffer, off + 1) \div 8) % 4
HeaderLayer(buffer, off) == (At(buffer, off + 1) \div 2) % 4
HeaderBitrateIndex(buffer, off) == At(buffer, off + 2) \div 16
HeaderSampleRateIndex(buffer, off) == (At(buffer, off + 2) \div 4) % 4
HeaderPadding(buffer, off) == (At(buffer, off + 2) \div 2) % 2

HeaderValid(buffer, off) ==
  /\ HeaderVersion(buffer, off) # 1
  /\ HeaderLayer(buffer, off) # 0
  /\ HeaderBitrateIndex(buffer, off) \notin {0, 15}
  /\ HeaderSampleRateIndex(buffer, off) # 3

\* the Layer III bitrates (kbps) of MPEG-2 and MPEG-2.5
LowBitrates == <<0, 8, 16, 24, 32, 40, 48, 56, 64, 80, 96, 112, 128, 144, 160, 0>>

\* floor(bitrate_kbps * 1000 * 144 / sampleRate) + padding with the tables
\* of the header's version
ClaimedFrameLength(buffer, off) ==
  LET v == HeaderVersion(buffer, off)
      kbps == IF v = 3 THEN At(bitrates, HeaderBitrateIndex(buffer, off))
              ELSE At(LowBitrates, HeaderBitrateIndex(buffer, off))
      rate == At(sampleRates, HeaderSampleRateIndex(buffer, off))
                \div (IF v = 3 THEN 1 ELSE IF v = 2 THEN 2 ELSE 4)
  IN ((kbps * 1000 * 144) \div rate) + HeaderPadding(buffer, off)

\* C8: a frame the scanner found that does not end at the end of its
\* buffer has the length the header at its offset gives.
C8_FrameLengthFromHeader ==
  \A s \in 0..(Len(scans) - 1) :
    \A j \in 1..FrameCount(s) :
      LET f == scans[s + 1].frames[j]
      IN (f.off + f.len < Len(InputBytes(s)) /\ HeaderValid(InputBytes(s), f.off))
           => f.len = ClaimedFrameLength(InputBytes(s), f.off)

\* C9: the extraction loop of a segment that holds a sync is entered at
\* 10 + size for a buffer that starts with 'ID3', size read from the low 7
\* bits of bytes 6..9, and at the first sync found from byte 0 otherwise.
C9_ScanStartsBehindTag ==
  \A s \in 0..(Len(scans) - 1) :
    findMP3FrameSync(InputBytes(s), 0) # -1 =>
      scans[s + 1].frameStart =
        IF StartsWithID3(InputBytes(s)) THEN 10 + SynchSafeSize(InputBytes(s))
        ELSE findMP3FrameSync(InputBytes(s), 0)

\* the segment has no bytes: no base64 text, or a text that decodes to none
NoBytes(seg) ==
  \/ SegmentBase64(seg) = <<>>
  \/ atob(SegmentBase64(seg)).bytes = <<>>

\* C10: a request without segments, or with a segment that has no bytes,
\* is answered with an error and no merged output.
C10_BadRequestRejected ==
  (pc = "done" /\ (~isArray \/ Len(audioSegments) = 0
                    \/ \E j \in 1..Len(audioSegments) : NoBytes(audioSegments[j]))) =>
    /\ ~response.ok
    /\ response.status >= 400
    /\ response.mergedBase64 = <<>>

----------------------------------------------------------------------------
(* One pass of the for loop of concatenateMP3Files, iteration by iteration *)
(* of its loops.                                                           *)

\* the longest buffer that is built from ScanBytes
MaxScanLen == 6

\* 0xFF, a second header byte that passes the test of findMP3FrameSync, a
\* third header byte, and a byte that is no part of a header
ScanBytes == {255, 228, 16, 7}

\* an ID3v2 tag declared one byte long before two tag bytes and a frame
Id3Junk == <<73, 68, 51, 3, 0, 0, 0, 0, 0, 1>> \o <<9, 9, 9>> \o <<255, 228, 16, 0, 1, 2>>
\* an ID3v2 tag declared 100 bytes long in a buffer cut after 9 of them
Id3Overlong == <<73, 68, 51, 3, 0, 0, 0, 0, 0, 100>> \o <<9>> \o <<255, 228, 16, 0, 1, 2, 3, 4>>
\* a frame whose payload holds the bytes of a header, then a frame cut short
FalseSync ==
  <<255, 228, 16, 0, 1, 255, 228, 16, 0>> \o Filler(207, 3) \o <<255, 228, 16, 0, 1, 2>>
\* a whole frame, then the four header bytes of the next one
Tail4 == FullFrame(1) \o <<255, 228, 16, 0>>

ScanBuffers ==
  UNION {[1..n -> ScanBytes] : n \in 0..MaxScanLen}
  \cup {RawBytes, OneFrame, FourFrames, Id3Tagged, Id3Scenario, Id3HighBit,
        RealMp3, Id3Junk, Id3Overlong, FalseSync, Tail4}

\* the handler is not looked at
HandlerIdle ==
  /\ pc = "idle"
  /\ isArray = FALSE
  /\ audioSegments = <<>>
  /\ audioBuffers = <<>>
  /\ i = 0
  /\ concatenatedFrames = <<>>
  /\ scans = <<>>
  /\ mergedBuffer = <<>>
  /\ response = NoResponse

\* the variables the pass leaves alone
scanRest == <<vars, wasmVars, tmpVars>>

\* index.ts 100-105: a buffer, currentIndex = 0, findMP3FrameSync entered
ScanInit ==
  /\ scanPc = "first"
  /\ scanBuffer \in ScanBuffers
  /\ scanIndex = 0
  /\ scanFrameStart = -1
  /\ scanFrames = <<>>
  /\ scanRaw = FALSE
  /\ HandlerIdle
  /\ WasmIdle
  /\ TmpIdle

\* i++ of the loop of findMP3FrameSync
NextCandidateStalls(i0) == i0
NextCandidate(i0) == i0 + 1

\* currentIndex = frameStart + frameSize
CurrentIndexInsideFrame(frameStart, frameSize) == frameStart + 1
CurrentIndex(frameStart, frameSize) == frameStart + frameSize

\* index.ts 42-56: offset scanIndex fails the test, the loop goes on
SeekReject ==
  /\ scanPc \in {"first", "next"}
  /\ scanIndex < Len(scanBuffer) - 3
  /\ ~SyncAt(scanBuffer, scanIndex)
  /\ scanIndex' = NextCandidate(scanIndex)
  /\ UNCHANGED <<scanPc, scanBuffer, scanFrameStart, scanFrames, scanRaw>>
  /\ UNCHANGED scanRest

\* index.ts 105, 113-120: the first sync is found; the ID3 skip
FirstSyncFound ==
  /\ scanPc = "first"
  /\ scanIndex < Len(scanBuffer) - 3
  /\ SyncAt(scanBuffer, scanIndex)
  /\ scanFrameStart' = IF scanIndex > 10 /\ IsID3(scanBuffer)
                       THEN 10 + Id3Size(scanBuffer)
                       ELSE scanIndex
  /\ scanPc' = "frame"
  /\ UNCHANGED <<scanBuffer, scanIndex, scanFrames, scanRaw>>
  /\ UNCHANGED scanRest

\* index.ts 105-110: no sync in the buffer, it is pushed whole
NoSyncFound ==
  /\ scanPc = "first"
  /\ ~(scanIndex < Len(scanBuffer) - 3)
  /\ scanRaw' = TRUE
  /\ scanPc' = "done"
  /\ UNCHANGED <<scanBuffer, scanIndex, scanFrameStart, scanFrames>>
  /\ UNCHANGED scanRest

\* index.ts 124-131: a frame is sliced and pushed
EmitFrame ==
  /\ scanPc = "frame"
  /\ scanFrameStart < Len(scanBuffer)
  /\ LET frameSize == getMP3FrameSize(scanBuffer, scanFrameStart)
     IN /\ ~(frameSize <= 0)
        /\ scanFrames' = Append(scanFrames,
             FrameSpan(Frame(0, scanFrameStart, FALSE,
                             Slice(scanBuffer, scanFrameStart,
                                   scanFrameStart + frameSize))))
        /\ scanIndex' = CurrentIndex(scanFrameStart, frameSize)
  /\ scanPc' = "next"
  /\ UNCHANGED <<scanBuffer, scanFrameStart, scanRaw>>
  /\ UNCHANGED scanRest

\* index.ts 124, 126: the while loop ends at frameStart
StopExtract ==
  /\ scanPc = "frame"
  /\ \/ ~(scanFrameStart < Len(scanBuffer))
     \/ getMP3FrameSize(scanBuffer, scanFrameStart) <= 0
  /\ scanPc' = "done"
  /\ UNCHANGED <<scanBuffer, scanIndex, scanFrameStart, scanFrames, scanRaw>>
  /\ UNCHANGED scanRest

\* index.ts 132: the next sync is found
NextSyncFound ==
  /\ scanPc = "next"
  /\ scanIndex < Len(scanBuffer) - 3
  /\ SyncAt(scanBuffer, scanIndex)
  /\ scanFrameStart' = scanIndex
  /\ scanPc' = "frame"
  /\ UNCHANGED <<scanBuffer, scanIndex, scanFrames, scanRaw>>
  /\ UNCHANGED scanRest

\* index.ts 132-133: no further sync, break
NoNextSync ==
  /\ scanPc = "next"
  /\ ~(scanIndex < Len(scanBuffer) - 3)
  /\ scanFrameStart' = -1
  /\ scanPc' = "done"
  /\ UNCHANGED <<scanBuffer, scanIndex, scanFrames, scanRaw>>
  /\ UNCHANGED scanRest

ScanNext ==
  \/ SeekReject
  \/ FirstSyncFound
  \/ NoSyncFound
  \/ EmitFrame
  \/ StopExtract
  \/ NextSyncFound
  \/ NoNextSync

allVars == <<vars, scanVars, wasmVars, tmpVars>>

\* the loops are synchronous code: an iteration that can run does run
ScanSpec == ScanInit /\ [][ScanNext]_allVars /\ WF_allVars(ScanNext)

\* the pass taken step by step ends with the frames of SegmentFrames
ScanStepsAgree ==
  scanPc = "done" =>
    /\ scanRaw = (findMP3FrameSync(scanBuffer, 0) = -1)
    /\ scanFrames = [j \in 1..Len(SegmentFrames(scanBuffer, 0)) |->
                       FrameSpan(SegmentFrames(scanBuffer, 0)[j])]

----------------------------------------------------------------------------
(* The claims about one pass of the scan.                                  *)

\* C11: every frame a pass emits starts at an offset that holds 0xFF and a
\* byte whose top three bits are set, with a header whose version id is not
\* 01, whose layer id is not 00, whose bitrate index is neither 0000 nor 1111
\* and whose sample-rate index is not 11; this holds for the offset the ID3
\* skip arrives at as well.
C11_FramesStartAtValidHeaders ==
  \A j \in 1..Len(scanFrames) :
    LET off == scanFrames[j].off
    IN /\ At(scanBuffer, off) = 255
       /\ At(scanBuffer, off + 1) \div 32 = 7
       /\ HeaderValid(scanBuffer, off)

\* a 4-byte header that is whole at off and passes the checks of C11
ValidSyncAt(buffer, off) ==
  /\ off + 4 <= Len(buffer)
  /\ At(buffer, off) = 255
  /\ At(buffer, off + 1) \div 32 = 7
  /\ HeaderValid(buffer, off)

\* C12: a buffer that starts with an ID3 header and holds a valid frame sync
\* somewhere contributes bytes, whatever the size the tag declares: when no
\* frame is found behind the declared tag the scan falls back to byte 0.
C12_TaggedSegmentContributes ==
  (/\ scanPc = "done"
   /\ Len(scanBuffer) >= 10
   /\ IsID3(scanBuffer)
   /\ \E off \in 0..(Len(scanBuffer) - 4) : ValidSyncAt(scanBuffer, off))
  => (scanRaw \/ scanFrames # <<>>)

\* C13: no frame of a pass extends past the end of the buffer, and a pass
\* does not end at a sync it has found, with a header that passes the checks
\* of C11, while the bytes remaining there still hold the 4-byte header
\* (exactly 4 included): that frame is clipped to the end of the buffer and
\* emitted.
C13_LastFrameClippedAndEmitted ==
  /\ \A j \in 1..Len(scanFrames) :
       scanFrames[j].off + scanFrames[j].len <= Len(scanBuffer)
  /\ (/\ scanPc = "done"
      /\ scanFrameStart >= 0
      /\ Len(scanBuffer) - scanFrameStart >= 4)
     => ~(SyncAt(scanBuffer, scanFrameStart) /\ ValidSyncAt(scanBuffer, scanFrameStart))

\* C14: the frames of a pass have positive length and strictly increasing
\* offsets, and each starts at or behind the end of the frames before it.
C14_FramesIncreaseWithoutOverlap ==
  \A j \in 1..Len(scanFrames) :
    /\ scanFrames[j].len > 0
    /\ \A k \in 1..(j - 1) :
         /\ scanFrames[k].off < scanFrames[j].off
         /\ scanFrames[k].off + scanFrames[k].len <= scanFrames[j].off

\* a pass has ended with two frames or more, the first of which holds in its
\* payload an offset that passes the test of findMP3FrameSync
C14_Witness ==
  /\ scanPc = "done"
  /\ Len(scanFrames) >= 2
  /\ \E off \in (scanFrames[1].off + 1)..(scanFrames[1].off + scanFrames[1].len - 1) :
       off < Len(scanBuffer) - 3 /\ SyncAt(scanBuffer, off)

\* offset off holds 0xFF and a byte whose top three bits are set, and fails
\* the test of findMP3FrameSync
RejectedCandidate(buffer, off) ==
  /\ off < Len(buffer) - 3
  /\ At(buffer, off) = 255
  /\ At(buffer, off + 1) \div 32 = 7
  /\ ~SyncAt(buffer, off)

\* C15: every pass ends, whatever the buffer holds, with no more frames than
\* the buffer has bytes; an offset that fails the test of the scan moves the
\* search one position forward and leaves the pass and its frames as they are.
C15_ScanTerminates ==
  /\ <>(scanPc = "done")
  /\ [](Len(scanFrames) <= Len(scanBuffer))
  /\ [][(/\ scanPc \in {"first", "next"}
         /\ scanIndex < Len(scanBuffer) - 3
         /\ ~SyncAt(scanBuffer, scanIndex))
        => (/\ scanIndex' > scanIndex
            /\ scanPc' = scanPc
            /\ scanFrames' = scanFrames)]_scanVars

\* a pass has ended with a frame found behind a rejected candidate
C15_Witness ==
  /\ scanPc = "done"
  /\ scanFrames # <<>>
  /\ \E off \in 0..(scanFrames[1].off - 1) : RejectedCandidate(scanBuffer, off)

----------------------------------------------------------------------------
(* route.ts 1-104: two requests in flight in the route that merges on the  *)
(* shared ffmpeg.wasm instance.  A step of a request is the operation it   *)
(* awaits together with the synchronous code up to the next await.  A file *)
(* is a record: by is the request that wrote it, data what it holds.  The  *)
(* bytes of segment k of request r are the token [req |-> r, seg |-> k].   *)

Requests == {1, 2}

\* the most segments a request holds
MaxFiles == 2

\* audioSegments of a request, sorted: each segment has base64 text or not
SegmentLists == UNION {[1..n -> {"data", "missing"}] : n \in 1..MaxFiles}

Token(r, k) == [req |-> r, seg |-> k]

\* the bytes a request sends, in order
OwnTokens(segs, r) == [k \in 1..Len(segs) |-> Token(r, k - 1)]

\* a file name: list.txt, output.mp3, seg_<n>.mp3; t is the time stamp in
\* the names of the route that works in tmpdir()
FileName(kind, n, t) == [kind |-> kind, n |-> n, t |-> t]

Exists(fs, name) == name \in DOMAIN fs

WriteFile(fs, name, r, data) ==
  [x \in DOMAIN fs \cup {name} |->
     IF x = name THEN [by |-> r, data |-> data] ELSE fs[x]]

DeleteFile(fs, name) == [x \in DOMAIN fs \ {name} |-> fs[x]]

RECURSIVE ConcatData(_, _)
\* the concat demuxer with -c copy: the listed files one after the other
ConcatData(fs, names) ==
  IF names = <<>> THEN <<>>
  ELSE ConcatData(fs, SubSeq(names, 1, Len(names) - 1)) \o fs[names[Len(names)]].data

\* every listed file is there
AllExist(fs, names) == \A j \in 1..Len(names) : Exists(fs, names[j])

\* a listed file was written by a request other than r
ForeignListed(fs, names, r) ==
  \E j \in 1..Len(names) : Exists(fs, names[j]) /\ fs[names[j]].by # r

Reply(status, body) == [status |-> status, body |-> body]
NoReply == Reply(0, <<>>)

ListTxt == FileName("list.txt", 0, 0)
OutputMp3 == FileName("output.mp3", 0, 0)
\* `seg_${i}.mp3`
SegMp3(n) == FileName("seg", n, 0)

\* route.ts 5-7, 39-50: the module is loaded, two requests have passed the
\* validation of their payload
WasmInit ==
  /\ ffmpeg = "null"
  /\ ffmpegReady = FALSE
  /\ wasmFs = <<>>
  /\ wasmPc = [r \in Requests |-> "start"]
  /\ wasmSegments \in [Requests -> SegmentLists]
  /\ wasmI = [r \in Requests |-> 0]
  /\ fileNames = [r \in Requests |-> <<>>]
  /\ wasmResponse = [r \in Requests |-> NoReply]
  /\ wasmEvents = [r \in Requests |-> {}]
  /\ HandlerIdle
  /\ ScanIdle
  /\ TmpIdle

wasmRest == <<vars, scanVars, tmpVars>>

\* route.ts 53, 9-13: getFFmpeg up to its first await, or to its return
GetFFmpeg(r) ==
  /\ wasmPc[r] = "start"
  /\ ffmpeg' = "instance"
  /\ wasmPc' = [wasmPc EXCEPT ![r] = IF ffmpegReady THEN "clean list" ELSE "load"]
  /\ UNCHANGED <<ffmpegReady, wasmFs, wasmSegments, wasmI, fileNames,
                 wasmResponse, wasmEvents>>
  /\ UNCHANGED wasmRest

\* route.ts 16-22: the core is fetched and loaded
LoadDone(r) ==
  /\ wasmPc[r] = "load"
  /\ ffmpegReady' = TRUE
  /\ wasmPc' = [wasmPc EXCEPT ![r] = "clean list"]
  /\ UNCHANGED <<ffmpeg, wasmFs, wasmSegments, wasmI, fileNames,
                 wasmResponse, wasmEvents>>
  /\ UNCHANGED wasmRest

\* route.ts 16-19, 97-103: fetching or loading the core throws
LoadFails(r) ==
  /\ wasmPc[r] = "load"
  /\ wasmResponse' = [wasmResponse EXCEPT ![r] = Reply(500, <<>>)]
  /\ wasmPc' = [wasmPc EXCEPT ![r] = "done"]
  /\ UNCHANGED <<ffmpeg, ffmpegReady, wasmFs, wasmSegments, wasmI, fileNames,
                 wasmEvents>>
  /\ UNCHANGED wasmRest

\* route.ts 56: deleteFile("list.txt"), a failure swallowed
CleanList(r) ==
  /\ wasmPc[r] = "clean list"
  /\ wasmFs' = DeleteFile(wasmFs, ListTxt)
  /\ wasmEvents' = [wasmEvents EXCEPT ![r] = @ \cup
       IF /\ Exists(wasmFs, ListTxt)
          /\ wasmFs[ListTxt].by # r
          /\ wasmPc[wasmFs[ListTxt].by] = "exec"
       THEN {"deleted list"} ELSE {}]
  /\ wasmPc' = [wasmPc EXCEPT ![r] = "clean output"]
  /\ UNCHANGED <<ffmpeg, ffmpegReady, wasmSegments, wasmI, fileNames, wasmResponse>>
  /\ UNCHANGED wasmRest

\* route.ts 57-60: deleteFile("output.mp3"), a failure swallowed
CleanOutput(r) ==
  /\ wasmPc[r] = "clean output"
  /\ wasmFs' = DeleteFile(wasmFs, OutputMp3)
  /\ wasmEvents' = [wasmEvents EXCEPT ![r] = @ \cup
       IF /\ Exists(wasmFs, OutputMp3)
          /\ wasmFs[OutputMp3].by # r
          /\ wasmPc[wasmFs[OutputMp3].by] = "read"
       THEN {"deleted output"} ELSE {}]
  /\ wasmPc' = [wasmPc EXCEPT ![r] = "write"]
  /\ UNCHANGED <<ffmpeg, ffmpegReady, wasmSegments, wasmI, fileNames, wasmResponse>>
  /\ UNCHANGED wasmRest

\* route.ts 64-71: a segment without base64 text
RejectSegment(r) ==
  /\ wasmPc[r] = "write"
  /\ wasmI[r] < Len(wasmSegments[r])
  /\ wasmSegments[r][wasmI[r] + 1] = "missing"
  /\ wasmResponse' = [wasmResponse EXCEPT ![r] = Reply(400, <<>>)]
  /\ wasmPc' = [wasmPc EXCEPT ![r] = "done"]
  /\ UNCHANGED <<ffmpeg, ffmpegReady, wasmFs, wasmSegments, wasmI, fileNames,
                 wasmEvents>>
  /\ UNCHANGED wasmRest

\* route.ts 63-78: writeFile of segment i
WriteSegment(r) ==
  /\ wasmPc[r] = "write"
  /\ wasmI[r] < Len(wasmSegments[r])
  /\ wasmSegments[r][wasmI[r] + 1] = "data"
  /\ LET fileName == SegMp3(wasmI[r])
     IN /\ wasmFs' = WriteFile(wasmFs, fileName, r, <<Token(r, wasmI[r])>>)
        /\ fileNames' = [fileNames EXCEPT ![r] = Append(@, fileName)]
  /\ wasmI' = [wasmI EXCEPT ![r] = @ + 1]
  /\ UNCHANGED <<ffmpeg, ffmpegReady, wasmPc, wasmSegments, wasmResponse, wasmEvents>>
  /\ UNCHANGED wasmRest

\* route.ts 81, 33-36: writeConcatList
WriteConcatList(r) ==
  /\ wasmPc[r] = "write"
  /\ wasmI[r] = Len(wasmSegments[r])
  /\ wasmFs' = WriteFile(wasmFs, ListTxt, r, fileNames[r])
  /\ wasmPc' = [wasmPc EXCEPT ![r] = "exec"]
  /\ UNCHANGED <<ffmpeg, ffmpegReady, wasmSegments, wasmI, fileNames,
                 wasmResponse, wasmEvents>>
  /\ UNCHANGED wasmRest

\* route.ts 82: exec of the concat demuxer on list.txt into output.mp3; it
\* writes nothing when list.txt or a listed file is not there
Exec(r) ==
  /\ wasmPc[r] = "exec"
  /\ LET listed == IF Exists(wasmFs, ListTxt) THEN wasmFs[ListTxt].data ELSE <<>>
     IN /\ wasmFs' = IF Exists(wasmFs, ListTxt) /\ AllExist(wasmFs, listed)
                     THEN WriteFile(wasmFs, OutputMp3, r, ConcatData(wasmFs, listed))
                     ELSE wasmFs
        /\ wasmEvents' = [wasmEvents EXCEPT ![r] = @
             \cup (IF Exists(wasmFs, ListTxt) /\ wasmFs[ListTxt].by # r
                   THEN {"read list"} ELSE {})
             \cup (IF ForeignListed(wasmFs, listed, r)
                   THEN {"read segment"} ELSE {})]
  /\ wasmPc' = [wasmPc EXCEPT ![r] = "read"]
  /\ UNCHANGED <<ffmpeg, ffmpegReady, wasmSegments, wasmI, fileNames, wasmResponse>>
  /\ UNCHANGED wasmRest

\* route.ts 84-103: readFile("output.mp3") and the response
ReadOutput(r) ==
  /\ wasmPc[r] = "read"
  /\ wasmResponse' = [wasmResponse EXCEPT ![r] =
       IF Exists(wasmFs, OutputMp3) THEN Reply(200, wasmFs[OutputMp3].data)
       ELSE Reply(500, <<>>)]
  /\ wasmEvents' = [wasmEvents EXCEPT ![r] = @ \cup
       IF Exists(wasmFs, OutputMp3) /\ wasmFs[OutputMp3].by # r
       THEN {"read output"} ELSE {}]
  /\ wasmPc' = [wasmPc EXCEPT ![r] = "done"]
  /\ UNCHANGED <<ffmpeg, ffmpegReady, wasmFs, wasmSegments, wasmI, fileNames>>
  /\ UNCHANGED wasmRest

WasmNext ==
  \E r \in Requests :
    \/ GetFFmpeg(r)
    \/ LoadDone(r)
    \/ LoadFails(r)
    \/ CleanList(r)
    \/ CleanOutput(r)
    \/ RejectSegment(r)
    \/ WriteSegment(r)
    \/ WriteConcatList(r)
    \/ Exec(r)
    \/ ReadOutput(r)

WasmSpec == WasmInit /\ [][WasmNext]_allVars

\* C16: two requests in flight do not interfere: a request reads no concat
\* list, segment file or output file the other has written, deletes no file
\* the other still needs, and a merged response holds the bytes of the
\* request's own segments, in order, and nothing else.
C16_RequestsDoNotInterfere ==
  \A r \in Requests :
    /\ wasmEvents[r] = {}
    /\ wasmResponse[r].status = 200
         => wasmResponse[r].body = OwnTokens(wasmSegments[r], r)

----------------------------------------------------------------------------
(* route.ts 197-319: two requests in flight in the route that merges with  *)
(* fluent-ffmpeg over files in tmpdir().  Files, names and tokens are as   *)
(* above; the clock is Date.now().                                         *)

\* the last value of the clock
MaxNow == 1

Outcome(kind, base64) == [kind |-> kind, base64 |-> base64]

\* `seg_${i}_${Date.now()}.mp3`
SegTemp(n, t) == FileName("seg", n, t)
\* `concat_${Date.now()}.txt`
ConcatTxt(t) == FileName("concat", 0, t)
\* `output_${Date.now()}.mp3`
OutputTemp(t) == FileName("output", 0, t)

\* route.ts 220-231: two requests have passed the validation of their payload
TmpInit ==
  /\ now = 0
  /\ tmpFs = <<>>
  /\ tmpPc = [r \in Requests |-> "start"]
  /\ tmpSegments \in [Requests -> SegmentLists]
  /\ tmpI = [r \in Requests |-> 0]
  /\ tempFiles = [r \in Requests |-> <<>>]
  /\ outputFile = [r \in Requests |-> OutputTemp(0)]
  /\ tmpOutcome = [r \in Requests |-> Outcome("none", <<>>)]
  /\ tmpResponse = [r \in Requests |-> NoReply]
  /\ tmpFailed = [r \in Requests |-> {}]
  /\ HandlerIdle
  /\ ScanIdle
  /\ WasmIdle

tmpRest == <<vars, scanVars, wasmVars>>

\* time passes
Tick ==
  /\ now < MaxNow
  /\ now' = now + 1
  /\ UNCHANGED <<tmpFs, tmpPc, tmpSegments, tmpI, tempFiles, outputFile,
                 tmpOutcome, tmpResponse, tmpFailed>>
  /\ UNCHANGED tmpRest

\* route.ts 233-238: tempFiles, outputFile
TmpStart(r) ==
  /\ tmpPc[r] = "start"
  /\ outputFile' = [outputFile EXCEPT ![r] = OutputTemp(now)]
  /\ tmpPc' = [tmpPc EXCEPT ![r] = "write"]
  /\ UNCHANGED <<now, tmpFs, tmpSegments, tmpI, tempFiles, tmpOutcome,
                 tmpResponse, tmpFailed>>
  /\ UNCHANGED tmpRest

\* route.ts 241-246: a segment without base64 text, the handler returns
TmpRejectSegment(r) ==
  /\ tmpPc[r] = "write"
  /\ tmpI[r] < Len(tmpSegments[r])
  /\ tmpSegments[r][tmpI[r] + 1] = "missing"
  /\ tmpResponse' = [tmpResponse EXCEPT ![r] = Reply(400, <<>>)]
  /\ tmpPc' = [tmpPc EXCEPT ![r] = "done"]
  /\ UNCHANGED <<now, tmpFs, tmpSegments, tmpI, tempFiles, outputFile,
                 tmpOutcome, tmpFailed>>
  /\ UNCHANGED tmpRest

\* route.ts 241-255: writeFile of segment i
TmpWriteSegment(r) ==
  /\ tmpPc[r] = "write"
  /\ tmpI[r] < Len(tmpSegments[r])
  /\ tmpSegments[r][tmpI[r] + 1] = "data"
  /\ LET tempFile == SegTemp(tmpI[r], now)
     IN /\ tmpFs' = WriteFile(tmpFs, tempFile, r, <<Token(r, tmpI[r])>>)
        /\ tempFiles' = [tempFiles EXCEPT ![r] = Append(@, tempFile)]
  /\ tmpI' = [tmpI EXCEPT ![r] = @ + 1]
  /\ UNCHANGED <<now, tmpPc, tmpSegments, outputFile, tmpOutcome, tmpResponse,
                 tmpFailed>>
  /\ UNCHANGED tmpRest

\* route.ts 257-261: the concat file
TmpWriteConcat(r) ==
  /\ tmpPc[r] = "write"
  /\ tmpI[r] = Len(tmpSegments[r])
  /\ LET concatFile == ConcatTxt(now)
     IN /\ tmpFs' = WriteFile(tmpFs, concatFile, r, tempFiles[r])
        /\ tempFiles' = [tempFiles EXCEPT ![r] = Append(@, concatFile)]
  /\ tmpPc' = [tmpPc EXCEPT ![r] = "merge"]
  /\ UNCHANGED <<now, tmpSegments, tmpI, outputFile, tmpOutcome, tmpResponse,
                 tmpFailed>>
  /\ UNCHANGED tmpRest

\* route.ts 264-277: ffmpeg ends: the listed files merged into outputFile
TmpMerge(r) ==
  /\ tmpPc[r] = "merge"
  /\ LET concatFile == tempFiles[r][Len(tempFiles[r])]
     IN /\ Exists(tmpFs, concatFile)
        /\ AllExist(tmpFs, tmpFs[concatFile].data)
        /\ tmpFs' = WriteFile(tmpFs, outputFile[r], r,
                              ConcatData(tmpFs, tmpFs[concatFile].data))
  /\ tmpPc' = [tmpPc EXCEPT ![r] = "read"]
  /\ UNCHANGED <<now, tmpSegments, tmpI, tempFiles, outputFile, tmpOutcome,
                 tmpResponse, tmpFailed>>
  /\ UNCHANGED tmpRest

\* route.ts 264-277, 301: ffmpeg reports an error (an input it cannot read
\* or decode), the promise rejects
TmpMergeFails(r) ==
  /\ tmpPc[r] = "merge"
  /\ tmpOutcome' = [tmpOutcome EXCEPT ![r] = Outcome("threw", <<>>)]
  /\ tmpI' = [tmpI EXCEPT ![r] = 0]
  /\ tmpPc' = [tmpPc EXCEPT ![r] = "unlink"]
  /\ UNCHANGED <<now, tmpFs, tmpSegments, tempFiles, outputFile, tmpResponse,
                 tmpFailed>>
  /\ UNCHANGED tmpRest

\* route.ts 279-281, 301: readFile(outputFile), which throws when the file
\* is not there
TmpReadOutput(r) ==
  /\ tmpPc[r] = "read"
  /\ tmpOutcome' = [tmpOutcome EXCEPT ![r] =
       IF Exists(tmpFs, outputFile[r])
       THEN Outcome("merged", tmpFs[outputFile[r]].data)
       ELSE Outcome("threw", <<>>)]
  /\ tmpI' = [tmpI EXCEPT ![r] = 0]
  /\ tmpPc' = [tmpPc EXCEPT ![r] = "unlink"]
  /\ UNCHANGED <<now, tmpFs, tmpSegments, tempFiles, outputFile, tmpResponse,
                 tmpFailed>>
  /\ UNCHANGED tmpRest

\* route.ts 284-288, 305-309: unlink of the next temporary file; a file that
\* is not there makes unlink throw, which is swallowed
TmpUnlink(r) ==
  /\ tmpPc[r] = "unlink"
  /\ tmpI[r] < Len(tempFiles[r])
  /\ tmpFs' = DeleteFile(tmpFs, tempFiles[r][tmpI[r] + 1])
  /\ tmpI' = [tmpI EXCEPT ![r] = @ + 1]
  /\ UNCHANGED <<now, tmpPc, tmpSegments, tempFiles, outputFile, tmpOutcome,
                 tmpResponse, tmpFailed>>
  /\ UNCHANGED tmpRest

\* route.ts 284-288, 305-309: unlink throws with the file left in place
TmpUnlinkFails(r) ==
  /\ tmpPc[r] = "unlink"
  /\ tmpI[r] < Len(tempFiles[r])
  /\ Exists(tmpFs, tempFiles[r][tmpI[r] + 1])
  /\ tmpFailed' = [tmpFailed EXCEPT ![r] = @ \cup {tempFiles[r][tmpI[r] + 1]}]
  /\ tmpI' = [tmpI EXCEPT ![r] = @ + 1]
  /\ UNCHANGED <<now, tmpFs, tmpPc, tmpSegments, tempFiles, outputFile,
                 tmpOutcome, tmpResponse>>
  /\ UNCHANGED tmpRest

\* the response behind the clean-up: route.ts 293-299 or 314-317
TmpReply(outcome) ==
  IF outcome.kind = "merged" THEN Reply(200, outcome.base64) ELSE Reply(500, <<>>)

\* route.ts 289-299, 310-317: unlink(outputFile) and the response
TmpReturn(r) ==
  /\ tmpPc[r] = "unlink"
  /\ tmpI[r] = Len(tempFiles[r])
  /\ tmpFs' = DeleteFile(tmpFs, outputFile[r])
  /\ tmpResponse' = [tmpResponse EXCEPT ![r] = TmpReply(tmpOutcome[r])]
  /\ tmpPc' = [tmpPc EXCEPT ![r] = "done"]
  /\ UNCHANGED <<now, tmpSegments, tmpI, tempFiles, outputFile, tmpOutcome,
                 tmpFailed>>
  /\ UNCHANGED tmpRest

\* route.ts 289-299, 310-317: unlink(outputFile) throws with the file left
\* in place, and the response
TmpReturnUnlinkFails(r) ==
  /\ tmpPc[r] = "unlink"
  /\ tmpI[r] = Len(tempFiles[r])
  /\ Exists(tmpFs, outputFile[r])
  /\ tmpFailed' = [tmpFailed EXCEPT ![r] = @ \cup {outputFile[r]}]
  /\ tmpResponse' = [tmpResponse EXCEPT ![r] = TmpReply(tmpOutcome[r])]
  /\ tmpPc' = [tmpPc EXCEPT ![r] = "done"]
  /\ UNCHANGED <<now, tmpFs, tmpSegments, tmpI, tempFiles, outputFile, tmpOutcome>>
  /\ UNCHANGED tmpRest

TmpNext ==
  \/ Tick
  \/ \E r \in Requests :
       \/ TmpStart(r)
       \/ TmpRejectSegment(r)
       \/ TmpWriteSegment(r)
       \/ TmpWriteConcat(r)
       \/ TmpMerge(r)
       \/ TmpMergeFails(r)
       \/ TmpReadOutput(r)
       \/ TmpUnlink(r)
       \/ TmpUnlinkFails(r)
       \/ TmpReturn(r)
       \/ TmpReturnUnlinkFails(r)

TmpSpec == TmpInit /\ [][TmpNext]_allVars

\* C17: when a request has returned its response, on whichever path, no
\* file it wrote is left in tmpdir() unless the unlink of that file threw;
\* and a request whose unlink threw returns the response of its merge: 200
\* with the merged bytes, or 500 when the merge threw.
C17_TempFilesDeletedOnReturn ==
  \A r \in Requests :
    tmpPc[r] = "done" =>
      /\ \A name \in DOMAIN tmpFs : tmpFs[name].by = r => name \in tmpFailed[r]
      /\ tmpFailed[r] # {} => tmpResponse[r] = TmpReply(tmpOutcome[r])

====
